---- MODULE Spec2Model ----
(***************************************************************************)
(* A model of 1_classification_animeface/py/main.py: the training script   *)
(* main(), the ImageClassifier hooks it hands to the trainer, and the      *)
(* trainer's loop that calls those hooks.                                   *)
(*                                                                         *)
(* Numbers.  Losses and accuracies are floats in the code.  They are       *)
(* modelled as exact non-negative rationals <<num, den>> in lowest terms;  *)
(* the float rounding of an addition or a division is not modelled.        *)
(* Elapsed time is modelled in ticks of 1/TimeScale second.                *)
(*                                                                         *)
(* The network, the criterion's inputs and the accuracy helper are an      *)
(* oracle: each sample of a batch gets an outcome (its loss and whether    *)
(* the target is among the top 1 / top 5 predictions), chosen by the       *)
(* environment.                                                            *)
(*                                                                         *)
(* The trainer.  With gpus=2 and accelerator="dp" every batch, of training *)
(* and of evaluation, is scattered over the replicas and the step hook     *)
(* runs on each slice.  training_step_end gets the losses the replicas     *)
(* return.  The python floats validation_step and test_step return are     *)
(* made tensors, gathered, and, as the module has no validation_step_end   *)
(* or test_step_end, averaged over the replicas: an evaluation loop        *)
(* collects one (loss, acc1, acc5) of tensors per batch.  ModelCheckpoint  *)
(* runs after each validation epoch of fit() and not after the sanity pass *)
(* or in test(); the scheduler, returned without an interval, is stepped   *)
(* once per epoch.                                                         *)
(*                                                                         *)
(* main().  write_log_base, the construction block and move_mlruns make    *)
(* their calls one at a time, and each call returns or raises.             *)
(***************************************************************************)
EXTENDS Integers, Sequences, FiniteSets, TLC

VARIABLES
    pc,           \* the statement of main() that runs next, "done" or "failed"
    failed_at,    \* the statement that raised, or "" when none has
    args,         \* the hydra configuration
    data,         \* number of samples under path2db/train and path2db/val
    calls,        \* the calls main() and write_log_base() have made, in order
    stage,        \* where the trainer is in fit()/test()
    testing,      \* ImageClassifier.testing
    loader,       \* the loader of the loop the trainer is running
    epoch,        \* trainer.current_epoch
    batch_idx,    \* batches of the running loop handled so far
    global_step,  \* trainer.global_step
    last_batch,   \* the batch last handed to a step hook
    last_step,    \* what the last training_step did
    replica_outs, \* what each replica's evaluation step returned last
    eval_seen,    \* totals over the samples the running evaluation loop has fed
    step_loss,    \* what training_step_end returned last
    outputs,      \* the step outputs of the running evaluation loop
    logged,       \* metric key -> the value last given to self.log
    epoch_ret,    \* what the last *_epoch_end hook returned
    val_history,  \* val_loss logged by each validation epoch of fit()
    sched,        \* the StepLR scheduler
    ckpt,         \* the ModelCheckpoint callback
    printed       \* the elapsed time main() printed

vars == <<pc, failed_at, args, data, calls, stage, testing, loader, epoch,
          batch_idx, global_step, last_batch, last_step, replica_outs,
          eval_seen, step_loss, outputs, logged, epoch_ret, val_history, sched,
          ckpt, printed>>

---------------------------------------------------------------------------
(* Bounds of the model. *)

\* Largest number of samples in a split, in the whole-run specification.
MaxData == 2
\* Largest batch_size, in the whole-run specification.
MaxBatch == 2
\* Largest number of epochs.
MaxEpochs == 2
\* Largest log_freq and largest lr_step_size.
MaxFreq == 2
\* Largest per-sample loss the oracle reports.
MaxLoss == 1
\* Largest number of validation samples in SpecEval.
MaxEvalData == 4
\* Largest batch_size in SpecEval.
MaxEvalBatch == 3
\* Largest elapsed time, in seconds, in SpecElapsed.
MaxElapsed == 7300
\* Clock ticks per second.
TimeScale == 2

(* Constants of the program. *)

\* gpus=2: the replicas a training batch is scattered over.
NumGpus == 2
SecondsPerHour == 3600
SecondsPerMinute == 60

---------------------------------------------------------------------------
(* Numbers: exact rationals standing for the code's floats. *)

RECURSIVE GCD(_, _)
GCD(a, b) == IF b = 0 THEN a ELSE GCD(b, a % b)

\* The value n/d (n >= 0, d > 0).
Rat(n, d) == LET g == GCD(n, d) IN <<n \div g, d \div g>>

\* x + y
RatAdd(x, y) == Rat(x[1] * y[2] + y[1] * x[2], x[2] * y[2])

\* x / k for an integer k > 0
RatDivInt(x, k) == Rat(x[1], x[2] * k)

\* x < y
RatLess(x, y) == x[1] * y[2] < y[1] * x[2]

\* Python's None, where a number is expected.
None == <<>>

\* Python's None, where a dict is expected.
NoneRet == [kind |-> "None"]

\* Python's sum(list): 0 + list[0] + list[1] + ...
RECURSIVE PySumFrom(_, _, _)
PySumFrom(acc, list, i) ==
    IF i > Len(list) THEN acc ELSE PySumFrom(RatAdd(acc, list[i]), list, i + 1)

PySum(list) == PySumFrom(Rat(0, 1), list, 1)

---------------------------------------------------------------------------
(* The oracle's outcomes. *)

\* One sample's outcome: its loss, and 1 or 0 for a top-1 / top-5 hit.
Outcomes ==
    {o \in [loss : 0..MaxLoss, hit1 : 0..1, hit5 : 0..1] : o.hit1 <= o.hit5}

\* The outcomes used in the whole-run specification: a sample is either
\* classified right with no loss or wrong with loss 1.
CoarseOutcomes ==
    {[loss |-> 0, hit1 |-> 1, hit5 |-> 1], [loss |-> 1, hit1 |-> 0, hit5 |-> 0]}

RECURSIVE SumOf(_, _, _)
SumOf(batch, f, i) ==
    IF i > Len(batch) THEN 0 ELSE batch[i][f] + SumOf(batch, f, i + 1)

\* nn.CrossEntropyLoss(): the mean of the per-sample losses of the batch.
criterion(batch) == Rat(SumOf(batch, "loss", 1), Len(batch))

\* utils.accuracy(output, target, topk=(1, 5)): the share of the batch's
\* samples whose target is among the top 1 / top 5 predictions.
accuracy(batch) ==
    <<Rat(SumOf(batch, "hit1", 1), Len(batch)),
      Rat(SumOf(batch, "hit5", 1), Len(batch))>>

---------------------------------------------------------------------------
(* The loaders. *)

\* __dataloader(train): the DataLoader's arguments.
dataloader(a, train) ==
    [split      |-> IF train THEN "train" ELSE "val",
     batch_size |-> a.batch_size,
     shuffle    |-> train,
     drop_last  |-> train]

train_dataloader(a) == dataloader(a, TRUE)

val_dataloader(a) == dataloader(a, FALSE)

test_dataloader(a) == dataloader(a, FALSE)

\* len(loader): the batches of one pass over the n samples of its split.
LoaderLen(l, n) ==
    IF l.drop_last
    THEN n \div l.batch_size
    ELSE (n + l.batch_size - 1) \div l.batch_size

\* The number of samples in batch i (1-based) of a pass over n samples.
BatchSize(l, n, i) ==
    IF i * l.batch_size <= n THEN l.batch_size ELSE n - (i - 1) * l.batch_size

\* Samples in the split a loader reads.
SplitSize(l, d) == IF l.split = "train" THEN d.train ELSE d.val

---------------------------------------------------------------------------
(* The hooks of ImageClassifier. *)

\* training_step with the logging test made on the step count after the
\* step, global_step + 1.
training_step_off_by_one(batch, g, a) ==
    LET loss == criterion(batch)
        acc  == accuracy(batch)
    IN  [logs |-> IF (g + 1) % a.log_freq = 0
                  THEN <<<<"train_loss", loss>>,
                         <<"train_acc1", acc[1]>>,
                         <<"train_acc5", acc[2]>>>>
                  ELSE <<>>,
         ret  |-> [loss |-> loss]]

\* training_step(batch, batch_nb) at global step g: the calls to self.log it
\* makes, in order, and the value it returns.
training_step(batch, g, a) ==
    LET loss == criterion(batch)
        acc  == accuracy(batch)
    IN  [logs |-> IF g % a.log_freq = 0
                  THEN <<<<"train_loss", loss>>,
                         <<"train_acc1", acc[1]>>,
                         <<"train_acc5", acc[2]>>>>
                  ELSE <<>>,
         ret  |-> [loss |-> loss]]

\* training_step_end(batch_parts): batch_parts["loss"].mean(), where
\* batch_parts["loss"] holds the loss each replica returned.
training_step_end(batch_parts) ==
    RatDivInt(PySum(batch_parts), Len(batch_parts))

\* validation_step(batch, batch_idx): (loss, acc1, acc5) of the batch it is
\* given, as python floats (.item()).
validation_step(batch) ==
    LET loss == criterion(batch)
        acc  == accuracy(batch)
    IN  <<loss, acc[1], acc[2]>>

\* xs.append(output[i].cpu().numpy()) for each step output, then
\* sum(xs) / len(xs).
MeanOfComponent(outs, i) ==
    LET xs == [k \in 1..Len(outs) |-> outs[k][i].tensor]
    IN  RatDivInt(PySum(xs), Len(xs))

\* validation_epoch_end with acc5 averaged over acc1_list.
validation_epoch_end_acc1_twice(outs, tst) ==
    LET loss == RatDivInt(PySum([k \in 1..Len(outs) |-> outs[k][1].tensor]), Len(outs))
        acc1 == RatDivInt(PySum([k \in 1..Len(outs) |-> outs[k][2].tensor]), Len(outs))
        acc5 == RatDivInt(PySum([k \in 1..Len(outs) |-> outs[k][2].tensor]), Len(outs))
    IN  [logs |-> <<<<"val_loss", loss>>,
                    <<"val_acc1", acc1>>,
                    <<"val_acc5", acc5>>>>,
         ret  |-> IF tst
                  THEN [kind |-> "dict", val_loss |-> loss,
                        val_acc1 |-> acc1, val_acc5 |-> acc5]
                  ELSE NoneRet]

\* validation_epoch_end(outputs), outputs not empty: the calls to self.log it
\* makes, in order, and the value it returns.
validation_epoch_end(outs, tst) ==
    LET loss == MeanOfComponent(outs, 1)
        acc1 == MeanOfComponent(outs, 2)
        acc5 == MeanOfComponent(outs, 3)
    IN  [logs |-> <<<<"val_loss", loss>>,
                    <<"val_acc1", acc1>>,
                    <<"val_acc5", acc5>>>>,
         ret  |-> IF tst
                  THEN [kind |-> "dict", val_loss |-> loss,
                        val_acc1 |-> acc1, val_acc5 |-> acc5]
                  ELSE NoneRet]

\* test_step(batch, batch_idx)
test_step(batch) == validation_step(batch)

\* test_epoch_end written on its own, logging under test_* keys.
test_epoch_end_own_keys(outs, tst) ==
    LET r == validation_epoch_end(outs, tst)
    IN  [logs |-> <<<<"test_loss", r.logs[1][2]>>,
                    <<"test_acc1", r.logs[2][2]>>,
                    <<"test_acc5", r.logs[3][2]>>>>,
         ret  |-> IF tst
                  THEN [kind |-> "dict", test_loss |-> r.logs[1][2],
                        test_acc1 |-> r.logs[2][2], test_acc5 |-> r.logs[3][2]]
                  ELSE NoneRet]

\* test_epoch_end(outputs)
test_epoch_end(outs, tst) == validation_epoch_end(outs, tst)

\* configure_optimizers(): the StepLR scheduler it builds.  decays counts the
\* times the learning rate has been multiplied by lr_gamma.
configure_optimizers(a, d) ==
    LET epoch_per_iteration == LoaderLen(train_dataloader(a), d.train)
    IN  [step_size  |-> a.optimizer.lr_step_size * epoch_per_iteration,
         last_epoch |-> 0,
         decays     |-> 0]

\* configure_callbacks with mode="max".
configure_callbacks_max(a) ==
    [monitor |-> "val_loss", mode |-> "max", best |-> None, best_epoch |-> -1]

\* configure_callbacks(): the ModelCheckpoint it builds, nothing saved yet.
configure_callbacks(a) ==
    [monitor |-> "val_loss", mode |-> "min", best |-> None, best_epoch |-> -1]

---------------------------------------------------------------------------
(* The trainer's side of the hooks. *)

\* The metric keys the hooks log under.
MetricKeys ==
    {"train_loss", "train_acc1", "train_acc5", "val_loss", "val_acc1", "val_acc5"}

\* self.log(key, value) for each call of logs, in order.
RECURSIVE ApplyLogs(_, _, _)
ApplyLogs(m, logs, i) ==
    IF i > Len(logs)
    THEN m
    ELSE ApplyLogs([k \in DOMAIN m \cup {logs[i][1]} |->
                       IF k = logs[i][1] THEN logs[i][2] ELSE m[k]],
                   logs, i + 1)

\* The orders in which the self.log calls of two replicas, each running its
\* own calls in order on its own thread, can reach the module.
RECURSIVE Interleavings(_, _)
Interleavings(x, y) ==
    IF x = <<>> THEN {y}
    ELSE IF y = <<>> THEN {x}
    ELSE {<<Head(x)>> \o m : m \in Interleavings(Tail(x), y)}
             \cup {<<Head(y)>> \o m : m \in Interleavings(x, Tail(y))}

\* The orders in which the self.log calls of all the replicas of one step can
\* reach the module.
RECURSIVE ReplicaLogOrders(_, _)
ReplicaLogOrders(results, j) ==
    IF j > Len(results)
    THEN {<<>>}
    ELSE UNION {Interleavings(results[j].logs, m) :
                   m \in ReplicaLogOrders(results, j + 1)}

\* The value last logged under key, None when there is none.
Metric(m, key) == IF key \in DOMAIN m THEN m[key] ELSE None

\* A scheduler returned in a plain list is stepped once per epoch.
SchedulerInterval == "epoch"

\* StepLR.step(): the learning rate is multiplied by lr_gamma when the
\* step count reaches a multiple of step_size.
StepLR_step(s) ==
    LET n == s.last_epoch + 1
    IN  [s EXCEPT !.last_epoch = n,
                  !.decays = IF n % s.step_size = 0 THEN @ + 1 ELSE @]

\* Whether ModelCheckpoint takes the current value over its best one.
Improves(c, current) ==
    \/ c.best = None
    \/ IF c.mode = "min" THEN RatLess(current, c.best) ELSE RatLess(c.best, current)

\* The slices DataParallel scatters a batch into, one per replica used.
Scatter(batch) ==
    LET n     == Len(batch)
        chunk == (n + NumGpus - 1) \div NumGpus
        used  == (n + chunk - 1) \div chunk
    IN  [j \in 1..used |->
            SubSeq(batch, (j - 1) * chunk + 1,
                   IF j * chunk <= n THEN j * chunk ELSE n)]

\* A 0-dim tensor holding v.
Tensor(v) == [tensor |-> v]

\* What the data-parallel wrapper makes of the (loss, acc1, acc5) the
\* replicas' evaluation steps return: the python floats are made tensors and
\* gathered, one entry per replica, and each component is averaged over the
\* replicas, every replica weighing the same.
DataParallelReduce(results) ==
    [i \in 1..3 |->
        Tensor(RatDivInt(PySum([j \in DOMAIN results |-> results[j][i]]),
                         Len(results)))]

---------------------------------------------------------------------------
(* main() *)

\* main() with the run's artifacts moved before the test.
main_body_move_first ==
    <<"write_log_base", "build", "fit", "move_mlruns", "test", "print_elapsed">>

\* The statements of main(), in program order.
main_body ==
    <<"write_log_base", "build", "fit", "test", "move_mlruns", "print_elapsed">>

\* The statement after p, "done" after the last one.
main_next(p) ==
    LET i == CHOOSE k \in 1..Len(main_body) : main_body[k] = p
    IN  IF i = Len(main_body) THEN "done" ELSE main_body[i + 1]

\* main() with fit and test in a try whose finally moves the artifacts and
\* prints the time.
on_raise_finally(p) == IF p \in {"fit", "test"} THEN "move_mlruns" ELSE "failed"

\* Where main() goes when statement p raises: there is no try/except, the
\* exception leaves main() and the process ends.
on_raise(p) == "failed"

\* The top-level keys of the configuration, in iteration order.
ArgKeys ==
    <<"exp_name", "path2db", "path2weight", "seed", "num_classes",
      "image_size", "crop_size", "print_freq", "apex", "batch_size", "epochs",
      "log_freq", "optimizer">>

\* One call, made by statement stmt of main().
Call(stmt, name, arg) == [stmt |-> stmt, call |-> name, arg |-> arg]

\* The calls of main() up to the logger's construction, write_log_base(args,
\* writer) among them: one log_param for each key of args.
write_log_base(a) ==
    <<Call("write_log_base", "MlflowWriter", "exp_name")>>
    \o [i \in 1..Len(ArgKeys) |->
           Call("write_log_base", "log_param", ArgKeys[i])]
    \o <<Call("write_log_base", "log_params_from_omegaconf_dict", "args"),
         Call("write_log_base", "log_artifact", ".hydra/config.yaml"),
         Call("write_log_base", "log_artifact", ".hydra/hydra.yaml"),
         Call("write_log_base", "log_artifact", ".hydra/overrides.yaml"),
         Call("write_log_base", "CustomMlFlowLogger", "writer")>>

\* The calls of main() from seed_everything to the Trainer's construction.
build_calls ==
    <<Call("build", "seed_everything", "seed"),
      Call("build", "mobilenet_v2", "num_classes"),
      Call("build", "CrossEntropyLoss", ""),
      Call("build", "ImageClassifier", "args"),
      Call("build", "Trainer", "logger")>>

\* The calls statement stmt of main() makes outside the script, in order,
\* where it makes them one after the other.
StatementCalls(stmt, a) ==
    CASE stmt = "write_log_base" -> write_log_base(a)
      [] stmt = "build"          -> build_calls
      [] stmt = "move_mlruns"    -> <<Call("move_mlruns", "writer.move_mlruns", "")>>
      [] OTHER                   -> <<>>

\* The print with the minutes taken from the whole interval.
FormatElapsedNoMod(interval) ==
    [interval |-> interval,
     h |-> interval \div (SecondsPerHour * TimeScale),
     m |-> interval \div (SecondsPerMinute * TimeScale),
     s |-> ((interval % (SecondsPerHour * TimeScale))
               % (SecondsPerMinute * TimeScale)) \div TimeScale]

\* The h, m, s main() prints for an interval given in clock ticks.
FormatElapsed(interval) ==
    [interval |-> interval,
     h |-> interval \div (SecondsPerHour * TimeScale),
     m |-> (interval % (SecondsPerHour * TimeScale))
               \div (SecondsPerMinute * TimeScale),
     s |-> ((interval % (SecondsPerHour * TimeScale))
               % (SecondsPerMinute * TimeScale)) \div TimeScale]

---------------------------------------------------------------------------
(* The state before main() runs. *)

NoLoader == [split |-> "none", batch_size |-> 0, shuffle |-> FALSE, drop_last |-> FALSE]

NoStep == [step |-> -1, parts |-> <<>>, results |-> <<>>]

NoneSeen == [n |-> 0, loss |-> 0, hit1 |-> 0, hit5 |-> 0]

NoSched == [step_size |-> 0, last_epoch |-> 0, decays |-> 0]

NoCkpt == [monitor |-> "", mode |-> "", best |-> None, best_epoch |-> -1]

NotPrinted == [interval |-> -1, h |-> 0, m |-> 0, s |-> 0]

\* The configurations with batch_size up to maxBatch.
ArgsUpTo(maxBatch) ==
    [exp_name    : {"animeface"},
     path2db     : {"db"},
     path2weight : {"weight"},
     seed        : {0},
     num_classes : {2},
     image_size  : {256},
     crop_size   : {224},
     print_freq  : {1},
     apex        : {FALSE},
     batch_size : 1..maxBatch,
     epochs     : 1..MaxEpochs,
     log_freq   : 1..MaxFreq,
     optimizer  : [lr_step_size : 1..MaxFreq]]

\* The datasets with up to maxData samples in a split.  The train split
\* fills at least one batch.
DataUpTo(a, maxData) == [train : a.batch_size..maxData, val : 1..maxData]

\* The state main() starts in, for configuration a and dataset d.
Start(a, d) ==
    /\ pc = main_body[1]
    /\ failed_at = ""
    /\ args = a
    /\ data = d
    /\ calls = <<>>
    /\ stage = "idle"
    /\ testing = FALSE
    /\ loader = NoLoader
    /\ epoch = 0
    /\ batch_idx = 0
    /\ global_step = 0
    /\ last_batch = <<>>
    /\ last_step = NoStep
    /\ replica_outs = <<>>
    /\ eval_seen = NoneSeen
    /\ step_loss = None
    /\ outputs = <<>>
    /\ logged = <<>>
    /\ epoch_ret = NoneRet
    /\ val_history = <<>>
    /\ sched = NoSched
    /\ ckpt = NoCkpt
    /\ printed = NotPrinted

Init == \E a \in ArgsUpTo(MaxBatch) : \E d \in DataUpTo(a, MaxData) : Start(a, d)

---------------------------------------------------------------------------
(* The statements of main(). *)

\* The calls statement stmt has made so far.
CallsMade(stmt) == Cardinality({i \in 1..Len(calls) : calls[i].stmt = stmt})

\* The call the statement main() is at makes next.
NextCall == StatementCalls(pc, args)[CallsMade(pc) + 1]

\* The next call of statement stmt is made and returns; after the
\* statement's last call main() goes on to the next statement.
CallReturns(stmt) ==
    /\ pc = stmt
    /\ CallsMade(pc) < Len(StatementCalls(pc, args))
    /\ calls' = Append(calls, NextCall)
    /\ pc' = IF CallsMade(pc) + 1 = Len(StatementCalls(pc, args))
             THEN main_next(pc)
             ELSE pc
    /\ UNCHANGED <<failed_at, args, data, stage, testing, loader, epoch,
                   batch_idx, global_step, last_batch, last_step, replica_outs,
                   eval_seen, step_loss, outputs, logged, epoch_ret,
                   val_history, sched, ckpt, printed>>

\* writer = MlflowWriter(...); writer = write_log_base(args, writer);
\* logger = CustomMlFlowLogger(writer): one call of them.
WriteLogBase == CallReturns("write_log_base")

\* pl.seed_everything(...) up to trainer = pl.Trainer(...): one call of them.
Build == CallReturns("build")

\* fit() entered by a configure_optimizers that writes the scaled step size
\* back into the configuration.
FitStartRescaling ==
    /\ pc = "fit"
    /\ stage = "idle"
    /\ calls' = Append(calls, Call("fit", "trainer.fit", "plmodel"))
    /\ ckpt' = configure_callbacks(args)
    /\ sched' = configure_optimizers(args, data)
    /\ args' = [args EXCEPT !.optimizer.lr_step_size =
                                configure_optimizers(args, data).step_size]
    /\ testing' = FALSE
    /\ stage' = "sanity"
    /\ loader' = val_dataloader(args)
    /\ batch_idx' = 0
    /\ outputs' = <<>>
    /\ replica_outs' = <<>>
    /\ eval_seen' = NoneSeen
    /\ UNCHANGED <<pc, failed_at, data, epoch, global_step, last_batch,
                   last_step, step_loss, logged, epoch_ret, val_history,
                   printed>>

\* trainer.fit(plmodel) is entered: the trainer asks the module for its
\* callbacks and optimizers and, with num_sanity_val_steps=-1, starts a pass
\* over the whole validation loader.
FitStart ==
    /\ pc = "fit"
    /\ stage = "idle"
    /\ calls' = Append(calls, Call("fit", "trainer.fit", "plmodel"))
    /\ ckpt' = configure_callbacks(args)
    /\ sched' = configure_optimizers(args, data)
    /\ testing' = FALSE
    /\ stage' = "sanity"
    /\ loader' = val_dataloader(args)
    /\ batch_idx' = 0
    /\ outputs' = <<>>
    /\ replica_outs' = <<>>
    /\ eval_seen' = NoneSeen
    /\ UNCHANGED <<pc, failed_at, args, data, epoch, global_step, last_batch,
                   last_step, step_loss, logged, epoch_ret, val_history,
                   printed>>

\* One training batch: training_step on each replica's slice, the replicas'
\* self.log calls in an order their threads may take, training_step_end on
\* the gathered losses, the optimizer step.  After the last batch of the
\* epoch the validation loop starts.
TrainBatch(O) ==
    /\ stage = "train"
    /\ batch_idx < LoaderLen(loader, SplitSize(loader, data))
    /\ \E batch \in [1..BatchSize(loader, SplitSize(loader, data), batch_idx + 1) -> O] :
         LET parts   == Scatter(batch)
             results == [j \in DOMAIN parts |->
                            training_step(parts[j], global_step, args)]
         IN  /\ last_batch' = batch
             /\ last_step' = [step |-> global_step, parts |-> parts,
                              results |-> results]
             /\ \E order \in ReplicaLogOrders(results, 1) :
                    logged' = ApplyLogs(logged, order, 1)
             /\ step_loss' = training_step_end(
                                 [j \in DOMAIN results |-> results[j].ret.loss])
    /\ global_step' = global_step + 1
    /\ sched' = IF SchedulerInterval = "step" THEN StepLR_step(sched) ELSE sched
    /\ IF batch_idx + 1 = LoaderLen(loader, SplitSize(loader, data))
       THEN /\ stage' = "val"
            /\ loader' = val_dataloader(args)
            /\ batch_idx' = 0
            /\ outputs' = <<>>
            /\ replica_outs' = <<>>
            /\ eval_seen' = NoneSeen
       ELSE /\ batch_idx' = batch_idx + 1
            /\ UNCHANGED <<stage, loader, outputs, replica_outs, eval_seen>>
    /\ UNCHANGED <<pc, failed_at, args, data, calls, testing, epoch,
                   epoch_ret, val_history, ckpt, printed>>

\* One batch of an evaluation loop: validation_step, or test_step in test(),
\* on each replica's slice of the batch, and the wrapper's reduction of what
\* the replicas return.
EvalStep(O) ==
    /\ stage \in {"sanity", "val", "test"}
    /\ batch_idx < LoaderLen(loader, SplitSize(loader, data))
    /\ \E batch \in [1..BatchSize(loader, SplitSize(loader, data), batch_idx + 1) -> O] :
         LET parts   == Scatter(batch)
             results == [j \in DOMAIN parts |->
                            IF stage = "test"
                            THEN test_step(parts[j])
                            ELSE validation_step(parts[j])]
         IN  /\ last_batch' = batch
             /\ replica_outs' = results
             /\ outputs' = Append(outputs, DataParallelReduce(results))
             /\ eval_seen' = [n    |-> eval_seen.n + Len(batch),
                              loss |-> eval_seen.loss + SumOf(batch, "loss", 1),
                              hit1 |-> eval_seen.hit1 + SumOf(batch, "hit1", 1),
                              hit5 |-> eval_seen.hit5 + SumOf(batch, "hit5", 1)]
    /\ batch_idx' = batch_idx + 1
    /\ UNCHANGED <<pc, failed_at, args, data, calls, stage, testing, loader,
                   epoch, global_step, last_step, step_loss, logged,
                   epoch_ret, val_history, sched, ckpt, printed>>

\* The values logged under key by the calls of logs, in order.
LoggedUnder(logs, key) ==
    LET hit == {i \in 1..Len(logs) : logs[i][1] = key}
    IN  IF hit = {} THEN <<>> ELSE <<logs[CHOOSE i \in hit : TRUE][2]>>

\* The end of an evaluation loop: validation_epoch_end, or test_epoch_end in
\* test().  The sanity pass is followed by the first training epoch.
EvalEpochEnd ==
    /\ stage \in {"sanity", "val", "test"}
    /\ batch_idx = LoaderLen(loader, SplitSize(loader, data))
    /\ LET r == IF stage = "test"
                THEN test_epoch_end(outputs, testing)
                ELSE validation_epoch_end(outputs, testing)
       IN  /\ logged' = ApplyLogs(logged, r.logs, 1)
           /\ epoch_ret' = r.ret
           /\ val_history' = IF stage = "val"
                             THEN val_history \o LoggedUnder(r.logs, "val_loss")
                             ELSE val_history
    /\ IF stage = "sanity"
       THEN /\ stage' = "train"
            /\ loader' = train_dataloader(args)
            /\ batch_idx' = 0
       ELSE /\ stage' = IF stage = "val" THEN "val_end" ELSE "test_done"
            /\ UNCHANGED <<loader, batch_idx>>
    /\ UNCHANGED <<pc, failed_at, args, data, calls, testing, epoch,
                   global_step, last_batch, last_step, step_loss, outputs,
                   replica_outs, eval_seen, sched, ckpt, printed>>

\* The trainer leaves its loop: the loop's loader, batches, step results and
\* outputs are dropped.
LoopLeft ==
    /\ loader' = NoLoader
    /\ batch_idx' = 0
    /\ last_batch' = <<>>
    /\ last_step' = NoStep
    /\ step_loss' = None
    /\ outputs' = <<>>
    /\ replica_outs' = <<>>
    /\ eval_seen' = NoneSeen
    /\ epoch_ret' = NoneRet

\* What is left of the process after an exception, besides the calls made:
\* the tracker's history and the checkpoint on disk.
Raise ==
    /\ pc' = on_raise(pc)
    /\ failed_at' = pc
    /\ stage' = "idle"
    /\ LoopLeft
    /\ logged' = <<>>
    /\ UNCHANGED <<args, data, testing, epoch, global_step, val_history,
                   sched, ckpt, printed>>

\* ModelCheckpoint at the end of a validation epoch of fit(): the monitored
\* key must have been logged; the checkpoint is saved when the value improves.
CheckpointCallback ==
    /\ stage = "val_end"
    /\ LET current == Metric(logged, ckpt.monitor)
       IN  IF current = None
           THEN Raise /\ UNCHANGED calls
           ELSE /\ ckpt' = IF Improves(ckpt, current)
                           THEN [ckpt EXCEPT !.best = current, !.best_epoch = epoch]
                           ELSE ckpt
                /\ stage' = "epoch_end"
                /\ UNCHANGED <<pc, failed_at, args, data, calls, testing,
                               loader, epoch, batch_idx, global_step,
                               last_batch, last_step, step_loss, outputs,
                               replica_outs, eval_seen, logged, epoch_ret,
                               val_history, sched, printed>>

\* The end of an epoch of fit(): the scheduler is stepped, and either the
\* next epoch starts or fit() is over.
EpochEnd ==
    /\ stage = "epoch_end"
    /\ sched' = IF SchedulerInterval = "epoch" THEN StepLR_step(sched) ELSE sched
    /\ epoch' = epoch + 1
    /\ IF epoch + 1 < args.epochs
       THEN /\ stage' = "train"
            /\ loader' = train_dataloader(args)
            /\ batch_idx' = 0
       ELSE /\ stage' = "fit_done"
            /\ UNCHANGED <<loader, batch_idx>>
    /\ UNCHANGED <<pc, failed_at, args, data, calls, testing, global_step,
                   last_batch, last_step, step_loss, outputs, replica_outs,
                   eval_seen, logged, epoch_ret, val_history, ckpt, printed>>

\* trainer.fit(plmodel) returns.
FitReturn ==
    /\ pc = "fit"
    /\ stage = "fit_done"
    /\ calls' = Append(calls, Call("fit", "trainer.fit returned", ""))
    /\ stage' = "idle"
    /\ pc' = main_next(pc)
    /\ LoopLeft
    /\ UNCHANGED <<failed_at, args, data, testing, epoch, global_step, logged,
                   val_history, sched, ckpt, printed>>

\* trainer.test(plmodel) is entered: a pass over the test loader.
TestStart ==
    /\ pc = "test"
    /\ stage = "idle"
    /\ calls' = Append(calls, Call("test", "trainer.test", "plmodel"))
    /\ testing' = TRUE
    /\ stage' = "test"
    /\ loader' = test_dataloader(args)
    /\ batch_idx' = 0
    /\ outputs' = <<>>
    /\ replica_outs' = <<>>
    /\ eval_seen' = NoneSeen
    /\ UNCHANGED <<pc, failed_at, args, data, epoch, global_step, last_batch,
                   last_step, step_loss, logged, epoch_ret, val_history,
                   sched, ckpt, printed>>

\* trainer.test(plmodel) returns.
TestReturn ==
    /\ pc = "test"
    /\ stage = "test_done"
    /\ calls' = Append(calls, Call("test", "trainer.test returned", ""))
    /\ stage' = "idle"
    /\ pc' = main_next(pc)
    /\ LoopLeft
    /\ UNCHANGED <<failed_at, args, data, testing, epoch, global_step, logged,
                   val_history, sched, ckpt, printed>>

\* writer.move_mlruns()
MoveMlruns == CallReturns("move_mlruns")

\* endtime = time.time(); interval = endtime - starttime; print(...)
PrintElapsed(T) ==
    /\ pc = "print_elapsed"
    /\ \E interval \in T : printed' = FormatElapsed(interval)
    /\ calls' = Append(calls, Call("print_elapsed", "print", "elapsed time"))
    /\ pc' = main_next(pc)
    /\ UNCHANGED <<failed_at, args, data, stage, testing, loader, epoch,
                   batch_idx, global_step, last_batch, last_step, step_loss,
                   outputs, replica_outs, eval_seen, logged, epoch_ret,
                   val_history, sched, ckpt>>

\* A call main() makes raises: the next call of write_log_base, of the
\* construction block or move_mlruns, which has then been made, or trainer.fit
\* or trainer.test at any point before it returns.
Fail ==
    \/ /\ pc \in {"write_log_base", "build", "move_mlruns"}
       /\ CallsMade(pc) < Len(StatementCalls(pc, args))
       /\ calls' = Append(calls, NextCall)
       /\ Raise
    \/ /\ pc \in {"fit", "test"}
       /\ stage # "idle"
       /\ UNCHANGED calls
       /\ Raise

\* Elapsed times tried in the whole-run specification, in clock ticks.
ClockSamples ==
    {TimeScale * SecondsPerMinute - 1,
     TimeScale * (SecondsPerHour + SecondsPerMinute + 1)}

Next ==
    \/ WriteLogBase
    \/ Build
    \/ FitStart
    \/ TrainBatch(CoarseOutcomes)
    \/ EvalStep(CoarseOutcomes)
    \/ EvalEpochEnd
    \/ CheckpointCallback
    \/ EpochEnd
    \/ FitReturn
    \/ TestStart
    \/ TestReturn
    \/ MoveMlruns
    \/ PrintElapsed(ClockSamples)
    \/ Fail

Spec == Init /\ [][Next]_vars

---------------------------------------------------------------------------
(* The evaluation loop on its own: main() up to the end of the validation  *)
(* pass fit() starts with, over larger validation sets and batches and the *)
(* full range of per-sample outcomes.                                      *)

EvalArgs ==
    {a \in ArgsUpTo(MaxEvalBatch) :
        a.epochs = 1 /\ a.log_freq = 1 /\ a.optimizer.lr_step_size = 1}

InitEval ==
    \E a \in EvalArgs :
        \E d \in {x \in DataUpTo(a, MaxEvalData) : x.train = a.batch_size} :
            Start(a, d)

NextEval ==
    \/ WriteLogBase
    \/ Build
    \/ FitStart
    \/ EvalStep(Outcomes)
    \/ EvalEpochEnd

SpecEval == InitEval /\ [][NextEval]_vars

---------------------------------------------------------------------------
(* The elapsed-time print on its own: one run of main() on the smallest    *)
(* input, with every elapsed time up to MaxElapsed seconds.                *)

InitElapsed ==
    \E a \in EvalArgs : a.batch_size = 1 /\ Start(a, [train |-> 1, val |-> 1])

OneOutcome == {[loss |-> 0, hit1 |-> 1, hit5 |-> 1]}

NextElapsed ==
    \/ WriteLogBase
    \/ Build
    \/ FitStart
    \/ TrainBatch(OneOutcome)
    \/ EvalStep(OneOutcome)
    \/ EvalEpochEnd
    \/ CheckpointCallback
    \/ EpochEnd
    \/ FitReturn
    \/ TestStart
    \/ TestReturn
    \/ MoveMlruns
    \/ PrintElapsed(0..(MaxElapsed * TimeScale))

SpecElapsed == InitElapsed /\ [][NextElapsed]_vars


---------------------------------------------------------------------------
(* The properties. *)

\* An evaluation loop has ended and outputs still holds its step outputs.
EvalEnded == outputs # <<>> /\ stage \notin {"sanity", "val", "test"}

\* The keys validation_epoch_end is to log component 1, 2, 3 under.
ValKeys == <<"val_loss", "val_acc1", "val_acc5">>

RECURSIVE DenProduct(_, _, _)
DenProduct(outs, i, k) ==
    IF k > Len(outs)
    THEN 1
    ELSE outs[k][i].tensor[2] * DenProduct(outs, i, k + 1)

\* D times the sum of component i of outs, for a multiple D of every
\* denominator.
RECURSIVE ScaledSum(_, _, _, _)
ScaledSum(outs, i, D, k) ==
    IF k > Len(outs)
    THEN 0
    ELSE outs[k][i].tensor[1] * (D \div outs[k][i].tensor[2])
             + ScaledSum(outs, i, D, k + 1)

\* m = (sum of component i of outs) / Len(outs)
IsMeanOfComponent(m, outs, i) ==
    LET D == DenProduct(outs, i, 1)
    IN  m[1] * Len(outs) * D = m[2] * ScaledSum(outs, i, D, 1)

\* C1: after validation_epoch_end on a non-empty list of step outputs, the
\* values logged under val_loss, val_acc1 and val_acc5 are the sum of the
\* loss, acc1 and acc5 components of the list's entries, one per batch,
\* divided by the number of batches.
C1_LoggedValuesAreBatchMeans ==
    EvalEnded =>
        \A i \in 1..3 :
            /\ Metric(logged, ValKeys[i]) # None
            /\ IsMeanOfComponent(Metric(logged, ValKeys[i]), outputs, i)

\* C1 happens: three batches whose outputs are not all alike have been
\* averaged, and the logged accuracies differ.
C1_Witness ==
    /\ EvalEnded
    /\ Len(outputs) = 3
    /\ outputs[1] # outputs[2]
    /\ Metric(logged, "val_acc1") # Metric(logged, "val_acc5")
    /\ Metric(logged, "val_loss") \notin {outputs[k][1].tensor : k \in 1..3}

\* The mean of the loss, the top-1 hits and the top-5 hits over the samples
\* the evaluation loop has fed.
PerSampleMean ==
    <<Rat(eval_seen.loss, eval_seen.n),
      Rat(eval_seen.hit1, eval_seen.n),
      Rat(eval_seen.hit5, eval_seen.n)>>

\* C2: the validation pass keeps the incomplete final batch, and
\* validation_epoch_end weighs every batch alike: when batch_size divides the
\* size of the validation set, so that all batches have the same size, each
\* logged value is the mean over the samples of the validation set.
C2_UniformBatchesGivePerSampleMean ==
    EvalEnded =>
        /\ eval_seen.n = data.val
        /\ Len(outputs) * args.batch_size >= data.val
        /\ (Len(outputs) - 1) * args.batch_size < data.val
        /\ data.val % args.batch_size = 0 =>
               \A i \in 1..3 : Metric(logged, ValKeys[i]) = PerSampleMean[i]

\* The place of a statement in the order the claim gives.
StatementRank(stmt) ==
    CASE stmt = "write_log_base" -> 1
      [] stmt = "build"          -> 2
      [] stmt = "fit"            -> 3
      [] stmt = "test"           -> 4
      [] stmt = "move_mlruns"    -> 5
      [] stmt = "print_elapsed"  -> 6

Called(name) == \E i \in 1..Len(calls) : calls[i].call = name

CalledWith(name, arg) ==
    \E i \in 1..Len(calls) : calls[i].call = name /\ calls[i].arg = arg

\* C3: the calls of one run of main() are made in the order configuration
\* logging, seeding and construction, fit, test, move_mlruns, print, none of
\* them twice; move_mlruns is not called before trainer.test has returned,
\* and no training happens before the parameters and the three configuration
\* snapshots have been logged.
C3_MainOrder ==
    /\ \A i \in 1..(Len(calls) - 1) :
           StatementRank(calls[i].stmt) <= StatementRank(calls[i + 1].stmt)
    /\ Cardinality({calls[i] : i \in 1..Len(calls)}) = Len(calls)
    /\ Called("writer.move_mlruns") => Called("trainer.test returned")
    /\ Called("trainer.test") => Called("trainer.fit returned")
    /\ Called("print") => Called("writer.move_mlruns")
    /\ (Called("trainer.fit") \/ stage # "idle" \/ global_step > 0) =>
           /\ \A k \in 1..Len(ArgKeys) : CalledWith("log_param", ArgKeys[k])
           /\ CalledWith("log_artifact", ".hydra/config.yaml")
           /\ CalledWith("log_artifact", ".hydra/hydra.yaml")
           /\ CalledWith("log_artifact", ".hydra/overrides.yaml")
           /\ Called("Trainer")

\* C3 happens: a run has gone through all its statements.
C3_Witness ==
    /\ pc = "done"
    /\ global_step >= 2
    /\ Called("writer.move_mlruns")
    /\ printed # NotPrinted

\* C4: once a statement of main() has raised, the run is over: main() is at
\* no statement, no call of a later statement has been made, and the elapsed
\* time has not been printed; after a failure of fit or test move_mlruns has
\* not been called.
C4_FailureEndsRun ==
    failed_at # "" =>
        /\ pc = "failed"
        /\ printed = NotPrinted
        /\ ~Called("print")
        /\ \A i \in 1..Len(calls) :
               StatementRank(calls[i].stmt) <= StatementRank(failed_at)
        /\ failed_at \in {"fit", "test"} => ~Called("writer.move_mlruns")

\* C4 happens: trainer.test raised in the middle of the test pass, after a
\* complete fit.
C4_Witness ==
    /\ failed_at = "test"
    /\ Called("trainer.test")
    /\ ~Called("trainer.test returned")
    /\ Len(val_history) >= 1

\* C5: no step of the run changes a value of the configuration.
C5_ArgsReadOnly == [][args' = args]_vars

\* C5 happens: every statement of main() and every hook has run, with a
\* configuration whose scheduler step size is not the configured one.
C5_Witness ==
    /\ pc = "done"
    /\ global_step >= 2
    /\ sched.step_size # args.optimizer.lr_step_size
    /\ ckpt.best # None

\* C6: the checkpoint callback monitors val_loss in min mode; the key is
\* logged when the callback runs at the end of a validation epoch; and once
\* it has run, the saved checkpoint is that of an epoch whose logged
\* val_loss no epoch so far has been below.
C6_CheckpointIsLowestValLoss ==
    /\ stage \in {"sanity", "train", "val", "val_end", "epoch_end", "fit_done"} =>
           ckpt.monitor = "val_loss" /\ ckpt.mode = "min"
    /\ stage = "val_end" =>
           /\ Metric(logged, "val_loss") # None
           /\ Len(val_history) = epoch + 1
           /\ val_history[epoch + 1] = Metric(logged, "val_loss")
    /\ (failed_at = "" /\ stage # "val_end" /\ val_history # <<>>) =>
           /\ ckpt.best_epoch + 1 \in DOMAIN val_history
           /\ val_history[ckpt.best_epoch + 1] = ckpt.best
           /\ \A e \in DOMAIN val_history : ~RatLess(val_history[e], ckpt.best)

\* C6 happens: the second validation epoch logged a lower val_loss than the
\* first and its checkpoint replaced the first one.
C6_Witness ==
    /\ stage = "epoch_end"
    /\ Len(val_history) = 2
    /\ RatLess(val_history[2], val_history[1])
    /\ ckpt.best_epoch = 1

\* C7: the printed h, m, s have 0 <= m < 60 and 0 <= s < 60 and add up to
\* the elapsed interval cut to whole seconds, and the print comes after
\* move_mlruns has returned.
C7_ElapsedIsHoursMinutesSeconds ==
    printed # NotPrinted =>
        /\ printed.interval >= 0
        /\ printed.h >= 0
        /\ 0 <= printed.m /\ printed.m < 60
        /\ 0 <= printed.s /\ printed.s < 60
        /\ printed.h * 3600 + printed.m * 60 + printed.s
               = printed.interval \div TimeScale
        /\ Called("writer.move_mlruns")

\* C7 happens: an interval of more than an hour, with minutes, seconds and
\* a fraction of a second, has been printed.
C7_Witness ==
    /\ printed # NotPrinted
    /\ printed.h >= 1
    /\ printed.m >= 1
    /\ printed.s >= 1
    /\ printed.interval % TimeScale # 0

\* C8: the scheduler's step size is lr_step_size times the number of
\* training batches of an epoch, and between two epochs of fit() and at its
\* end the learning rate has been multiplied by lr_gamma once for every
\* lr_step_size training epochs completed.
C8_DecayEveryLrStepSizeEpochs ==
    /\ sched # NoSched =>
           sched.step_size = args.optimizer.lr_step_size
                                 * (data.train \div args.batch_size)
    /\ (stage = "fit_done" \/ (stage = "train" /\ batch_idx = 0)) =>
           sched.decays = epoch \div args.optimizer.lr_step_size

\* C9: every training_step call of the last training batch logged
\* train_loss, train_acc1 and train_acc5 exactly when the global step was a
\* multiple of log_freq, and returned the loss of its batch under the key
\* loss and nothing else, logged or not; the train_loss last logged is the
\* loss one of the replicas returned.
C9_TrainingStepLogsOnMultiples ==
    last_step # NoStep =>
        /\ \A j \in DOMAIN last_step.results :
               LET r == last_step.results[j]
               IN  /\ (r.logs # <<>>) <=> (last_step.step % args.log_freq = 0)
                   /\ r.logs # <<>> =>
                          /\ Len(r.logs) = 3
                          /\ r.logs[1] = <<"train_loss", r.ret.loss>>
                          /\ r.logs[2][1] = "train_acc1"
                          /\ r.logs[3][1] = "train_acc5"
                   /\ DOMAIN r.ret = {"loss"}
                   /\ r.ret.loss = Rat(SumOf(last_step.parts[j], "loss", 1),
                                       Len(last_step.parts[j]))
        /\ last_step.step % args.log_freq = 0 =>
               \E j \in DOMAIN last_step.results :
                   Metric(logged, "train_loss") = last_step.results[j].ret.loss

\* C9 happens: step 0 logged, step 1 did not, and step 1 returned a loss
\* other than the logged one.
C9_Witness ==
    /\ last_step.step = 1
    /\ args.log_freq = 2
    /\ last_step.results[1].logs = <<>>
    /\ Metric(logged, "train_loss") # None
    /\ Metric(logged, "train_loss") # last_step.results[1].ret.loss

\* C10: in test(), the loader is the validation loader (val split, no
\* shuffle, last batch kept), each replica's step returns what
\* validation_step gives for its slice, and the epoch end logs what
\* validation_epoch_end logs for the outputs, under val_loss, val_acc1 and
\* val_acc5 and no other key; the epoch end returns a dict in test() and None
\* in fit().
C10_TestIsValidationAgain ==
    /\ stage \in {"test", "test_done"} =>
           /\ loader = val_dataloader(args)
           /\ loader.split = "val" /\ ~loader.shuffle /\ ~loader.drop_last
           /\ testing
    /\ (stage \in {"test", "test_done"} /\ outputs # <<>>) =>
           /\ DOMAIN replica_outs = DOMAIN Scatter(last_batch)
           /\ \A j \in DOMAIN replica_outs :
                  replica_outs[j] = validation_step(Scatter(last_batch)[j])
    /\ stage = "test_done" =>
           LET v == validation_epoch_end(outputs, FALSE)
           IN  /\ \A i \in 1..Len(v.logs) :
                      Metric(logged, v.logs[i][1]) = v.logs[i][2]
               /\ DOMAIN logged \subseteq MetricKeys
               /\ epoch_ret = [kind |-> "dict", val_loss |-> v.logs[1][2],
                               val_acc1 |-> v.logs[2][2], val_acc5 |-> v.logs[3][2]]
    /\ stage = "val_end" => epoch_ret = NoneRet /\ ~testing
    /\ (stage = "train" /\ epoch = 0 /\ batch_idx = 0) => epoch_ret = NoneRet

\* C10 happens: a test pass of two unlike batches has ended, with a result
\* other than that of the last validation epoch of fit().
C10_Witness ==
    /\ stage = "test_done"
    /\ Len(outputs) = 2
    /\ outputs[1] # outputs[2]
    /\ val_history # <<>>
    /\ Metric(logged, "val_loss") # val_history[Len(val_history)]

====
